---- MODULE Spec2Model ----
(***************************************************************************)
(* Firmware synchronisation subsystem of src/app.py: class FirmwareManager *)
(* (metadata, update policy, download with temp file and rename, the       *)
(* background checker) and the three /api/firmware routes, run by several  *)
(* threads against the shared manager state and the files on disk.         *)
(***************************************************************************)
EXTENDS Integers, Sequences, FiniteSets, TLC

\* ---------------------------------------------------------------- bounds
MaxVersion == 2        \* upstream publishes versions 1..MaxVersion
StartTime  == 3600     \* time.time() when the process first starts
TickStep   == 3600     \* the clock advances by this much per Tick
MaxTime    == 7500     \* the clock is not advanced past this

\* ------------------------------------------------------ program constants
CheckInterval == 3600  \* self.check_interval
NoVersion     == 0     \* None as a version / an unset size

\* ------------------------------------------------------ managers, threads
S1 == "BonicBotS1"
A1 == "BonicBotA1"

FIRMWARE_REPOS == {S1, A1}

\* The threads of the process: per manager the background checker and the
\* main thread, which runs the initial check and then serves the requests.
Threads == {"bg", "main", "bgA", "mainA"}

bot(t) == IF t \in {"bg", "main"} THEN S1 ELSE A1

role(t) == IF t \in {"bg", "bgA"} THEN "bg" ELSE "main"

\* The threads that run in the single-manager specification.
ThreadsS1 == {t \in Threads : bot(t) = S1}

\* ------------------------------------------------------------------ files
NoFile == [exists |-> FALSE, ver |-> NoVersion, len |-> 0]

\* Byte size of the asset of release v as the release API reports it.
AssetSize(v) == v

\* The asset of release v, complete.
Full(v) == [exists |-> TRUE, ver |-> v, len |-> AssetSize(v)]

IsComplete(f) == f.exists /\ f.ver # NoVersion /\ f.len = AssetSize(f.ver)

NoMeta == [state |-> "absent", version |-> NoVersion, size |-> NoVersion]

NoRelease == [version |-> NoVersion, size |-> NoVersion]

NoDecision == [needs_update |-> FALSE, reason |-> "", remote |-> NoVersion,
               current |-> NoVersion, release_info |-> NoRelease]

NoResult == [success |-> FALSE, message |-> "", a |-> 0, b |-> 0]

NoSnap == [taken |-> FALSE, firmware |-> NoFile, meta |-> NoMeta,
           current_version |-> NoVersion, release |-> NoVersion]

NoSeen == [exists |-> FALSE, version |-> NoVersion]

FetchErrors == {"Network error"}

VARIABLES
    now,               \* time.time()
    upstream,          \* per manager: tag of the latest upstream release
    firmware,          \* per manager: the file at firmware_path
    temp,              \* per manager: the file at firmware_path + '.tmp'
    meta,              \* per manager: the file at metadata_path
    last_check_time,   \* per manager: self.last_check_time
    current_version,   \* per manager: self.current_version
    is_checking,       \* per manager: self.is_checking
    firmware_lock,     \* the global Lock: its holder, or "free"
    pc,                \* per thread: the line it is about to execute
    op,                \* per thread: the operation it is running
    current_time,      \* per thread: needs_update's current_time
    release_info,      \* per thread: release_info of the running function
    decision,          \* per thread: what needs_update returned
    fetched,           \* per thread: needs_update queried the release API
    result,            \* per thread: what download_firmware returns
    downloaded_size,   \* per thread: download_firmware's downloaded_size
    response,          \* per thread: HTTP status code of the finished request
    crashed,           \* the process is dead
    snap,              \* history, per manager: files and version when the
                       \* running download acquired the flag
    crashpc,           \* history, per manager: line the download was at when
                       \* the process crashed
    seen               \* history, per thread: the local artifact's existence
                       \* and the local version as needs_update read them

vars == <<now, upstream, firmware, temp, meta, last_check_time,
          current_version, is_checking, firmware_lock, pc, op, current_time,
          release_info, decision, fetched, result, downloaded_size, response,
          crashed, snap, crashpc, seen>>

world   == <<now, upstream, crashed>>
disk    == <<firmware, temp, meta>>
memory  == <<last_check_time, current_version, is_checking, firmware_lock>>
locals  == <<current_time, release_info, decision, fetched, result,
             downloaded_size, response, seen>>
history == <<snap, crashpc>>

\* ------------------------------------------------------------------- Init
\* pc of a thread when the process starts: the background checker sleeps,
\* the main thread is about to run the initial check.
StartPc(t) == IF role(t) = "bg" THEN "bg237" ELSE "in297"

StartOp(t) == IF role(t) = "bg" THEN "bg" ELSE "init"

\* FirmwareManager._load_metadata as run by __init__: the version of a
\* readable metadata file, else None.
LoadedVersion(md) == IF md.state = "ok" THEN md.version ELSE NoVersion

\* A fresh installation: no firmware file, no metadata.
Init ==
    /\ now = StartTime
    /\ upstream = [m \in FIRMWARE_REPOS |-> 1]
    /\ firmware = [m \in FIRMWARE_REPOS |-> NoFile]
    /\ temp = [m \in FIRMWARE_REPOS |-> NoFile]
    /\ meta = [m \in FIRMWARE_REPOS |-> NoMeta]
    /\ last_check_time = [m \in FIRMWARE_REPOS |-> 0]
    /\ current_version = [m \in FIRMWARE_REPOS |-> LoadedVersion(NoMeta)]
    /\ is_checking = [m \in FIRMWARE_REPOS |-> FALSE]
    /\ firmware_lock = "free"
    /\ pc = [t \in Threads |-> StartPc(t)]
    /\ op = [t \in Threads |-> StartOp(t)]
    /\ current_time = [t \in Threads |-> 0]
    /\ release_info = [t \in Threads |-> NoRelease]
    /\ decision = [t \in Threads |-> NoDecision]
    /\ fetched = [t \in Threads |-> FALSE]
    /\ result = [t \in Threads |-> NoResult]
    /\ downloaded_size = [t \in Threads |-> 0]
    /\ response = [t \in Threads |-> 0]
    /\ crashed = FALSE
    /\ snap = [m \in FIRMWARE_REPOS |-> NoSnap]
    /\ crashpc = [m \in FIRMWARE_REPOS |-> "none"]
    /\ seen = [t \in Threads |-> NoSeen]

\* ------------------------------------------------------------ environment
\* Time passes.
Tick ==
    /\ ~crashed
    /\ now + TickStep <= MaxTime
    /\ now' = now + TickStep
    /\ UNCHANGED <<upstream, crashed, disk, memory, pc, op, locals, history>>

\* Upstream publishes a new latest release for manager m.
Publish(m) ==
    /\ ~crashed
    /\ upstream[m] < MaxVersion
    /\ upstream' = [upstream EXCEPT ![m] = @ + 1]
    /\ UNCHANGED <<now, crashed, disk, memory, pc, op, locals, history>>

\* ----------------------------------------------------------- needs_update
\* Where needs_update returns to, by the operation that called it.
AfterNeedsUpdate(t) == CASE op[t] = "bg"     -> "bg240"
                         [] op[t] = "init"   -> "in299"
                         [] op[t] = "status" -> "gs274"
                         [] OTHER            -> "cu334"

Decision(needs, reason, remote, current, info) ==
    [needs_update |-> needs, reason |-> reason, remote |-> remote,
     current |-> current, release_info |-> info]

\* needs_update returns d to its caller.
ReturnDecision(t, d) ==
    /\ decision' = [decision EXCEPT ![t] = d]
    /\ pc' = [pc EXCEPT ![t] = AfterNeedsUpdate(t)]

\* Mutant of Throttled: the comparison turned round.
Throttled_Reversed(cur, last) == cur - last > CheckInterval

\* Line 129: current_time - self.last_check_time < self.check_interval.
Throttled(cur, last) == cur - last < CheckInterval

\* Lines 128-130: read the clock; a recent check returns at once.
nu128(t) ==
    /\ pc[t] = "nu128"
    /\ current_time' = [current_time EXCEPT ![t] = now]
    /\ IF Throttled(now, last_check_time[bot(t)])
       THEN ReturnDecision(t, Decision(FALSE, "Recently checked", NoVersion,
                                       NoVersion, NoRelease))
       ELSE /\ pc' = [pc EXCEPT ![t] = "nu132"]
            /\ UNCHANGED decision
    /\ UNCHANGED <<world, disk, memory, op, release_info, fetched, result,
                   downloaded_size, response, seen, snap, crashpc>>

\* get_latest_release_info: the latest release and its asset.
LatestRelease(m) == [version |-> upstream[m], size |-> AssetSize(upstream[m])]

\* Lines 132-137: query the release API; an error is returned as the
\* reason; otherwise self.last_check_time = current_time.
nu132(t) ==
    /\ pc[t] = "nu132"
    /\ fetched' = [fetched EXCEPT ![t] = TRUE]
    /\ \/ \E e \in FetchErrors :
            /\ ReturnDecision(t, Decision(FALSE, e, NoVersion, NoVersion,
                                          NoRelease))
            /\ UNCHANGED <<release_info, last_check_time>>
       \/ /\ release_info' = [release_info EXCEPT ![t] = LatestRelease(bot(t))]
          /\ last_check_time' =
                 [last_check_time EXCEPT ![bot(t)] = current_time[t]]
          /\ pc' = [pc EXCEPT ![t] = "nu140"]
          /\ UNCHANGED decision
    /\ UNCHANGED <<world, disk, current_version, is_checking, firmware_lock,
                   op, current_time, result, downloaded_size, response, seen,
                   snap, crashpc>>

\* What the check read when it decided: whether the firmware file existed
\* and the local version.
Seen(t, e, v) == [seen EXCEPT ![t] = [exists |-> e, version |-> v]]

\* Lines 140-141: no local firmware file.
nu140(t) ==
    /\ pc[t] = "nu140"
    /\ IF ~firmware[bot(t)].exists
       THEN /\ ReturnDecision(t, Decision(TRUE, "No local firmware found",
                                 NoVersion, NoVersion, release_info[t]))
            /\ seen' = Seen(t, FALSE, current_version[bot(t)])
       ELSE /\ pc' = [pc EXCEPT ![t] = "nu144"]
            /\ UNCHANGED <<decision, seen>>
    /\ UNCHANGED <<world, disk, memory, op, current_time, release_info,
                   fetched, result, downloaded_size, response, snap, crashpc>>

\* Lines 144-145: the local version is unknown.
nu144(t) ==
    /\ pc[t] = "nu144"
    /\ IF current_version[bot(t)] = NoVersion
       THEN /\ ReturnDecision(t, Decision(TRUE, "Unknown local version",
                                 NoVersion, NoVersion, release_info[t]))
            /\ seen' = Seen(t, TRUE, current_version[bot(t)])
       ELSE /\ pc' = [pc EXCEPT ![t] = "nu148"]
            /\ UNCHANGED <<decision, seen>>
    /\ UNCHANGED <<world, disk, memory, op, current_time, release_info,
                   fetched, result, downloaded_size, response, snap, crashpc>>

\* Mutant of VersionsDiffer: only a greater remote version counts as new.
VersionsDiffer_Newer(local, remote) == remote > local

\* Line 148: self.current_version != release_info['version'].
VersionsDiffer(local, remote) == local # remote

\* Lines 148-151: compare the versions: a different one is a new version
\* (the reason names both), an equal one means up to date.
nu148(t) ==
    /\ pc[t] = "nu148"
    /\ seen' = Seen(t, TRUE, current_version[bot(t)])
    /\ IF VersionsDiffer(current_version[bot(t)], release_info[t].version)
       THEN ReturnDecision(t, Decision(TRUE, "New version available",
                release_info[t].version, current_version[bot(t)],
                release_info[t]))
       ELSE ReturnDecision(t, Decision(FALSE, "Up to date", NoVersion,
                NoVersion, release_info[t]))
    /\ UNCHANGED <<world, disk, memory, op, current_time, release_info,
                   fetched, result, downloaded_size, response, snap, crashpc>>

needs_update(t) ==
    nu128(t) \/ nu132(t) \/ nu140(t) \/ nu144(t) \/ nu148(t)

\* ------------------------------------------------------ download_firmware
\* Where download_firmware returns to, by the operation that called it.
AfterDownload(t) == CASE op[t] = "bg"   -> "bg243"
                      [] op[t] = "init" -> "in302"
                      [] OTHER          -> "rt364"

Result(success, message, a, b) ==
    [success |-> success, message |-> message, a |-> a, b |-> b]

\* The lines of download_firmware between setting and clearing is_checking.
DownloadBody == {"df162", "df179", "df186", "df194", "df196", "df208",
                 "df210", "df229", "df230"}

\* Line 155: with firmware_lock (blocks while another thread holds it).
df155(t) ==
    /\ pc[t] = "df155"
    /\ firmware_lock = "free"
    /\ firmware_lock' = t
    /\ pc' = [pc EXCEPT ![t] = "df156"]
    /\ UNCHANGED <<world, disk, last_check_time, current_version, is_checking,
                   op, locals, history>>

\* Mutant of AlreadyInProgress: the flag is set without being tested.
AlreadyInProgress_Untested(flag) == FALSE

\* Line 156: the test of the in-progress flag made under the lock.
AlreadyInProgress(flag) == flag

\* Mutant of df156: the lock is kept while the download runs.
df156_KeepsLock(t) ==
    /\ pc[t] = "df156"
    /\ IF AlreadyInProgress(is_checking[bot(t)])
       THEN /\ result' = [result EXCEPT ![t] =
                   Result(FALSE, "Download already in progress", 0, 0)]
            /\ pc' = [pc EXCEPT ![t] = AfterDownload(t)]
            /\ firmware_lock' = "free"
            /\ UNCHANGED <<is_checking, snap>>
       ELSE /\ is_checking' = [is_checking EXCEPT ![bot(t)] = TRUE]
            /\ pc' = [pc EXCEPT ![t] = "df162"]
            /\ snap' = [snap EXCEPT ![bot(t)] =
                   [taken |-> TRUE, firmware |-> firmware[bot(t)],
                    meta |-> meta[bot(t)],
                    current_version |-> current_version[bot(t)],
                    release |-> NoVersion]]
            /\ UNCHANGED <<result, firmware_lock>>
    /\ UNCHANGED <<world, disk, last_check_time, current_version, op,
                   current_time, release_info, decision, fetched,
                   downloaded_size, response, seen, crashpc>>

\* Lines 156-159: refuse if a download is in progress, else set the flag;
\* leaving the with block releases the lock.
df156(t) ==
    /\ pc[t] = "df156"
    /\ firmware_lock' = "free"
    /\ IF AlreadyInProgress(is_checking[bot(t)])
       THEN /\ result' = [result EXCEPT ![t] =
                   Result(FALSE, "Download already in progress", 0, 0)]
            /\ pc' = [pc EXCEPT ![t] = AfterDownload(t)]
            /\ UNCHANGED <<is_checking, snap>>
       ELSE /\ is_checking' = [is_checking EXCEPT ![bot(t)] = TRUE]
            /\ pc' = [pc EXCEPT ![t] = "df162"]
            /\ snap' = [snap EXCEPT ![bot(t)] =
                   [taken |-> TRUE, firmware |-> firmware[bot(t)],
                    meta |-> meta[bot(t)],
                    current_version |-> current_version[bot(t)],
                    release |-> NoVersion]]
            /\ UNCHANGED result
    /\ UNCHANGED <<world, disk, last_check_time, current_version, op,
                   current_time, release_info, decision, fetched,
                   downloaded_size, response, seen, crashpc>>

\* Mutant of Except: the failure is returned without the finally block.
Except_NoFinally(t) ==
    /\ temp' = [temp EXCEPT ![bot(t)] = NoFile]
    /\ result' = [result EXCEPT ![t] = Result(FALSE, "Download failed", 0, 0)]
    /\ pc' = [pc EXCEPT ![t] = AfterDownload(t)]

\* Lines 218-226: except: remove the temp file if it exists and return
\* "Download failed" (through finally).
Except(t) ==
    /\ temp' = [temp EXCEPT ![bot(t)] = NoFile]
    /\ result' = [result EXCEPT ![t] = Result(FALSE, "Download failed", 0, 0)]
    /\ pc' = [pc EXCEPT ![t] = "df229"]

\* Lines 162-172: without release_info, query the release API (an error is
\* returned); then open the asset stream, which raises on a transport error
\* or a non-2xx answer.
df162(t) ==
    /\ pc[t] = "df162"
    /\ \/ /\ release_info[t] = NoRelease
          /\ \E e \in FetchErrors :
                result' = [result EXCEPT ![t] = Result(FALSE, e, 0, 0)]
          /\ pc' = [pc EXCEPT ![t] = "df229"]
          /\ UNCHANGED <<release_info, temp, snap>>
       \/ \E r \in {IF release_info[t] = NoRelease THEN LatestRelease(bot(t))
                                                   ELSE release_info[t]} :
             /\ release_info' = [release_info EXCEPT ![t] = r]
             /\ snap' = [snap EXCEPT ![bot(t)].release = r.version]
             /\ \/ /\ pc' = [pc EXCEPT ![t] = "df179"]
                   /\ UNCHANGED <<temp, result>>
                \/ Except(t)
    /\ UNCHANGED <<world, firmware, meta, memory, op, current_time, decision,
                   fetched, downloaded_size, response, seen, crashpc>>

\* What the stream delivers before it ends or breaks: up to one byte more
\* than the release API announced.
StreamLengths(r) == 0..(r.size + 1)

\* Lines 175-183: open(temp_path, 'wb') creates or truncates the temp file
\* and the chunks are written to it, n bytes in all, until the stream ends;
\* makedirs, open, the transfer or a write may raise.
df179(t) ==
    /\ pc[t] = "df179"
    /\ \/ \E n \in StreamLengths(release_info[t]) :
             /\ temp' = [temp EXCEPT ![bot(t)] =
                    [exists |-> TRUE, ver |-> release_info[t].version,
                     len |-> n]]
             /\ downloaded_size' = [downloaded_size EXCEPT ![t] = n]
             /\ pc' = [pc EXCEPT ![t] = "df186"]
             /\ UNCHANGED result
       \/ /\ Except(t)
          /\ UNCHANGED downloaded_size
    /\ UNCHANGED <<world, firmware, meta, memory, op, current_time,
                   release_info, decision, fetched, response, seen, history>>

\* Mutant of SizeMismatch: only a short download is refused.
SizeMismatch_ShortOnly(downloaded, expected) == downloaded < expected

\* Line 186: downloaded_size != release_info['size'].
SizeMismatch(downloaded, expected) == downloaded # expected

\* Mutant of df186: a size mismatch fails without removing the temp file.
df186_KeepsTemp(t) ==
    /\ pc[t] = "df186"
    /\ IF SizeMismatch(downloaded_size[t], release_info[t].size)
       THEN /\ result' = [result EXCEPT ![t] =
                   Result(FALSE, "Download incomplete", downloaded_size[t],
                          release_info[t].size)]
            /\ pc' = [pc EXCEPT ![t] = "df229"]
       ELSE /\ pc' = [pc EXCEPT ![t] = "df194"]
            /\ UNCHANGED result
    /\ UNCHANGED <<world, disk, memory, op, current_time, release_info,
                   decision, fetched, downloaded_size, response, seen,
                   history>>

\* Lines 186-191: on a size mismatch remove the temp file and fail; else
\* hash the temp file.
df186(t) ==
    /\ pc[t] = "df186"
    /\ IF SizeMismatch(downloaded_size[t], release_info[t].size)
       THEN /\ temp' = [temp EXCEPT ![bot(t)] = NoFile]
            /\ result' = [result EXCEPT ![t] =
                   Result(FALSE, "Download incomplete", downloaded_size[t],
                          release_info[t].size)]
            /\ pc' = [pc EXCEPT ![t] = "df229"]
       ELSE /\ pc' = [pc EXCEPT ![t] = "df194"]
            /\ UNCHANGED <<temp, result>>
    /\ UNCHANGED <<world, firmware, meta, memory, op, current_time,
                   release_info, decision, fetched, downloaded_size, response,
                   seen, history>>

\* Lines 194-195: delete the existing firmware file; unlink may raise.
df194(t) ==
    /\ pc[t] = "df194"
    /\ \/ /\ firmware' = [firmware EXCEPT ![bot(t)] = NoFile]
          /\ pc' = [pc EXCEPT ![t] = "df196"]
          /\ UNCHANGED <<temp, result>>
       \/ /\ firmware[bot(t)].exists
          /\ Except(t)
          /\ UNCHANGED firmware
    /\ UNCHANGED <<world, meta, memory, op, current_time, release_info,
                   decision, fetched, downloaded_size, response, seen,
                   history>>

\* Line 196: os.rename(temp_path, firmware_path); rename may raise.
df196(t) ==
    /\ pc[t] = "df196"
    /\ \/ /\ firmware' = [firmware EXCEPT ![bot(t)] = temp[bot(t)]]
          /\ temp' = [temp EXCEPT ![bot(t)] = NoFile]
          /\ pc' = [pc EXCEPT ![t] = "df208"]
          /\ UNCHANGED result
       \/ /\ Except(t)
          /\ UNCHANGED firmware
    /\ UNCHANGED <<world, meta, memory, op, current_time, release_info,
                   decision, fetched, downloaded_size, response, seen,
                   history>>

\* Lines 199-207: the metadata record of the finished download (its version
\* and size).
Metadata(t) == [state |-> "ok", version |-> release_info[t].version,
                size |-> release_info[t].size]

\* Lines 199-208 with _save_metadata (70-77): the record is written, or
\* makedirs or open raises and the file stays as it was; the failure is only
\* logged.
df208(t) ==
    /\ pc[t] = "df208"
    /\ \/ meta' = [meta EXCEPT ![bot(t)] = Metadata(t)]
       \/ UNCHANGED meta
    /\ pc' = [pc EXCEPT ![t] = "df210"]
    /\ UNCHANGED <<world, firmware, temp, memory, op, locals, history>>

\* Lines 210-216: self.current_version = release_info['version'] and the
\* success return.
df210(t) ==
    /\ pc[t] = "df210"
    /\ current_version' =
           [current_version EXCEPT ![bot(t)] = release_info[t].version]
    /\ result' = [result EXCEPT ![t] =
           Result(TRUE, "Downloaded version", release_info[t].version, 0)]
    /\ pc' = [pc EXCEPT ![t] = "df229"]
    /\ UNCHANGED <<world, disk, last_check_time, is_checking, firmware_lock,
                   op, current_time, release_info, decision, fetched,
                   downloaded_size, response, seen, history>>

\* Line 229: finally: with firmware_lock.
df229(t) ==
    /\ pc[t] = "df229"
    /\ firmware_lock = "free"
    /\ firmware_lock' = t
    /\ pc' = [pc EXCEPT ![t] = "df230"]
    /\ UNCHANGED <<world, disk, last_check_time, current_version, is_checking,
                   op, locals, history>>

\* Line 230: self.is_checking = False; the lock is released and the result
\* returned.
df230(t) ==
    /\ pc[t] = "df230"
    /\ is_checking' = [is_checking EXCEPT ![bot(t)] = FALSE]
    /\ firmware_lock' = "free"
    /\ pc' = [pc EXCEPT ![t] = AfterDownload(t)]
    /\ snap' = [snap EXCEPT ![bot(t)] = NoSnap]
    /\ UNCHANGED <<world, disk, last_check_time, current_version, op, locals,
                   crashpc>>

download_firmware(t) ==
    df155(t) \/ df156(t) \/ df162(t) \/ df179(t) \/ df186(t) \/ df194(t)
        \/ df196(t) \/ df208(t) \/ df210(t) \/ df229(t) \/ df230(t)

\* ------------------------------------------------- callers of the manager
\* The locals of a finished call are dropped.
ClearLocals(t) ==
    /\ current_time' = [current_time EXCEPT ![t] = 0]
    /\ decision' = [decision EXCEPT ![t] = NoDecision]
    /\ fetched' = [fetched EXCEPT ![t] = FALSE]
    /\ result' = [result EXCEPT ![t] = NoResult]
    /\ downloaded_size' = [downloaded_size EXCEPT ![t] = 0]
    /\ seen' = [seen EXCEPT ![t] = NoSeen]

\* The caller goes on to download_firmware(release_info).
CallDownload(t, info) ==
    /\ pc' = [pc EXCEPT ![t] = "df155"]
    /\ release_info' = [release_info EXCEPT ![t] = info]
    /\ ClearLocals(t)

\* Mutant of ShouldDownload: the checker downloads after every check.
ShouldDownload_Always(d) == TRUE

\* Line 240: needs_update and release_info.
ShouldDownload(d) == d.needs_update /\ d.release_info # NoRelease

\* Line 237: the background checker wakes and calls needs_update (239).
bg237(t) ==
    /\ pc[t] = "bg237"
    /\ pc' = [pc EXCEPT ![t] = "nu128"]
    /\ UNCHANGED <<world, disk, memory, op, locals, history>>

\* Lines 240-242: download when the check says so, else sleep again.
bg240(t) ==
    /\ pc[t] = "bg240"
    /\ IF ShouldDownload(decision[t])
       THEN CallDownload(t, decision[t].release_info)
       ELSE /\ pc' = [pc EXCEPT ![t] = "bg237"]
            /\ release_info' = [release_info EXCEPT ![t] = NoRelease]
            /\ ClearLocals(t)
    /\ UNCHANGED <<world, disk, memory, op, response, history>>

\* Lines 243-246: the download returned; log and sleep again.
bg243(t) ==
    /\ pc[t] = "bg243"
    /\ pc' = [pc EXCEPT ![t] = "bg237"]
    /\ release_info' = [release_info EXCEPT ![t] = NoRelease]
    /\ ClearLocals(t)
    /\ UNCHANGED <<world, disk, memory, op, response, history>>

background_check(t) == bg237(t) \/ bg240(t) \/ bg243(t)

\* Line 297: initialize_firmware_managers runs the initial check.
in297(t) ==
    /\ pc[t] = "in297"
    /\ pc' = [pc EXCEPT ![t] = "nu128"]
    /\ UNCHANGED <<world, disk, memory, op, locals, history>>

\* The thread waits for a request.
Idle(t) ==
    /\ pc' = [pc EXCEPT ![t] = "idle"]
    /\ op' = [op EXCEPT ![t] = "none"]
    /\ release_info' = [release_info EXCEPT ![t] = NoRelease]
    /\ ClearLocals(t)

\* Lines 299-305: download if needed; then app.run (547) serves requests.
in299(t) ==
    /\ pc[t] = "in299"
    /\ IF decision[t].needs_update
       THEN /\ CallDownload(t, decision[t].release_info)
            /\ UNCHANGED op
       ELSE Idle(t)
    /\ UNCHANGED <<world, disk, memory, response, history>>

\* Lines 302-303: the initial download returned.
in302(t) ==
    /\ pc[t] = "in302"
    /\ Idle(t)
    /\ UNCHANGED <<world, disk, memory, response, history>>

initialize_firmware_managers(t) == in297(t) \/ in299(t) \/ in302(t)

\* The request is answered with the given status code.
Answer(t, code) ==
    /\ response' = [response EXCEPT ![t] = code]
    /\ pc' = [pc EXCEPT ![t] = "done"]
    /\ release_info' = [release_info EXCEPT ![t] = NoRelease]
    /\ ClearLocals(t)

\* GET status arrives (309-316); get_status (258-267) reads the manager's
\* fields and whether the firmware file exists.
gs267(t) ==
    /\ pc[t] = "idle"
    /\ op' = [op EXCEPT ![t] = "status"]
    /\ pc' = [pc EXCEPT ![t] =
                 IF firmware[bot(t)].exists THEN "gs268" ELSE "nu128"]
    /\ UNCHANGED <<world, disk, memory, locals, history>>

\* Lines 268-270: os.stat raises when the file is gone by now; the route
\* (318-319) answers 500.
gs268(t) ==
    /\ pc[t] = "gs268"
    /\ IF firmware[bot(t)].exists
       THEN /\ pc' = [pc EXCEPT ![t] = "nu128"]
            /\ UNCHANGED locals
       ELSE Answer(t, 500)
    /\ UNCHANGED <<world, disk, memory, op, history>>

\* Mutant of gs274: returning the status clears the in-progress flag.
gs274_ClearsFlag(t) ==
    /\ pc[t] = "gs274"
    /\ Answer(t, 200)
    /\ is_checking' = [is_checking EXCEPT ![bot(t)] = FALSE]
    /\ UNCHANGED <<world, disk, last_check_time, current_version,
                   firmware_lock, op, history>>

\* Lines 274-282 and 317: the status is returned with the decision.
gs274(t) ==
    /\ pc[t] = "gs274"
    /\ Answer(t, 200)
    /\ UNCHANGED <<world, disk, memory, op, history>>

get_status(t) == gs267(t) \/ gs268(t) \/ gs274(t)

\* POST check-update arrives (321-330): the forced check resets
\* last_check_time, then calls needs_update (332).
cu330(t) ==
    /\ pc[t] = "idle"
    /\ op' = [op EXCEPT ![t] = "check"]
    /\ last_check_time' = [last_check_time EXCEPT ![bot(t)] = 0]
    /\ pc' = [pc EXCEPT ![t] = "nu128"]
    /\ UNCHANGED <<world, disk, current_version, is_checking, firmware_lock,
                   locals, history>>

\* Lines 334-346: the decision is returned as JSON.
cu334(t) ==
    /\ pc[t] = "cu334"
    /\ Answer(t, 200)
    /\ UNCHANGED <<world, disk, memory, op, history>>

check_firmware_update(t) == cu330(t) \/ cu334(t)

\* POST download arrives (351-362): 409 if is_checking (read without the
\* lock), else manager.download_firmware().
rt359(t) ==
    /\ pc[t] = "idle"
    /\ op' = [op EXCEPT ![t] = "download"]
    /\ IF is_checking[bot(t)]
       THEN Answer(t, 409)
       ELSE /\ CallDownload(t, NoRelease)
            /\ UNCHANGED response
    /\ UNCHANGED <<world, disk, memory, history>>

\* Lines 364-367: 200 on success, else 500.
rt364(t) ==
    /\ pc[t] = "rt364"
    /\ Answer(t, IF result[t].success THEN 200 ELSE 500)
    /\ UNCHANGED <<world, disk, memory, op, history>>

download_route(t) == rt359(t) \/ rt364(t)

\* The response has been sent; the thread waits for the next request.
Respond(t) ==
    /\ pc[t] = "done"
    /\ Idle(t)
    /\ response' = [response EXCEPT ![t] = 0]
    /\ UNCHANGED <<world, disk, memory, history>>

\* ------------------------------------------------------------------ crash
\* The thread of manager m that holds the in-progress flag, if any.
Downloader(m) == {t \in Threads : bot(t) = m /\ pc[t] \in DownloadBody}

\* The process dies: threads and memory are gone, the files stay.
Crash ==
    /\ ~crashed
    /\ crashed' = TRUE
    /\ crashpc' = [m \in FIRMWARE_REPOS |->
                      IF Downloader(m) = {} THEN "none"
                      ELSE pc[CHOOSE t \in Downloader(m) : TRUE]]
    /\ pc' = [t \in Threads |-> "dead"]
    /\ op' = [t \in Threads |-> "none"]
    /\ last_check_time' = [m \in FIRMWARE_REPOS |-> 0]
    /\ current_version' = [m \in FIRMWARE_REPOS |-> NoVersion]
    /\ is_checking' = [m \in FIRMWARE_REPOS |-> FALSE]
    /\ firmware_lock' = "free"
    /\ current_time' = [t \in Threads |-> 0]
    /\ release_info' = [t \in Threads |-> NoRelease]
    /\ decision' = [t \in Threads |-> NoDecision]
    /\ fetched' = [t \in Threads |-> FALSE]
    /\ result' = [t \in Threads |-> NoResult]
    /\ downloaded_size' = [t \in Threads |-> 0]
    /\ response' = [t \in Threads |-> 0]
    /\ seen' = [t \in Threads |-> NoSeen]
    /\ UNCHANGED <<now, upstream, disk, snap>>

\* ---------------------------------------------------------- specification
Step(t) ==
    \/ needs_update(t)
    \/ download_firmware(t)
    \/ background_check(t)
    \/ initialize_firmware_managers(t)
    \/ get_status(t)
    \/ check_firmware_update(t)
    \/ download_route(t)
    \/ Respond(t)

\* One manager (BonicBotS1) with its two threads.
Next ==
    \/ \E t \in ThreadsS1 : Step(t)
    \/ Tick
    \/ Publish(S1)
    \/ Crash

Spec == Init /\ [][Next]_vars

\* The background checkers of the two managers, one thread each.
Checkers == {t \in Threads : role(t) = "bg"}

CheckerStep(t) ==
    needs_update(t) \/ download_firmware(t) \/ background_check(t)

\* Two managers (BonicBotS1, BonicBotA1), each with its background checker,
\* sharing the one firmware_lock.
NextTwo ==
    \/ \E t \in Checkers : CheckerStep(t)
    \/ Tick
    \/ \E m \in FIRMWARE_REPOS : Publish(m)

SpecTwo == Init /\ [][NextTwo]_vars

\* ---------------------------------------------------- liveness
\* A timestamp as seen after the clock was set back by TickStep.
SetBack(x) == IF x > TickStep THEN x - TickStep ELSE 0

\* Time passes, without end: once the clock has reached MaxTime it is kept
\* relative, every stored timestamp being set back instead of the clock
\* being advanced.  The code compares timestamps only as
\* time.time() - last_check_time < check_interval (line 129), and
\* TickStep >= CheckInterval, so a timestamp that reaches 0 stands for any
\* time at least one interval ago.
Elapse ==
    /\ ~crashed
    /\ IF now + TickStep <= MaxTime
       THEN /\ now' = now + TickStep
            /\ UNCHANGED <<last_check_time, current_time>>
       ELSE /\ now' = now
            /\ last_check_time' =
                   [m \in FIRMWARE_REPOS |-> SetBack(last_check_time[m])]
            /\ current_time' = [t \in Threads |-> SetBack(current_time[t])]
    /\ UNCHANGED <<upstream, crashed, disk, current_version, is_checking,
                   firmware_lock, pc, op, release_info, decision, fetched,
                   result, downloaded_size, response, seen, history>>

\* The main thread as a client polls the status: the initial check, then
\* GET status requests.
StatusStep(t) ==
    \/ needs_update(t)
    \/ download_firmware(t)
    \/ initialize_firmware_managers(t)
    \/ get_status(t)
    \/ Respond(t)

\* One manager with its background checker and status requests, in a
\* process that keeps running.
LiveNext ==
    \/ CheckerStep("bg")
    \/ StatusStep("main")
    \/ Elapse
    \/ Publish(S1)

\* The steps a thread takes by itself once it is scheduled: all but the
\* arrival of a request.
Progress(t) ==
    \/ needs_update(t)
    \/ download_firmware(t)
    \/ background_check(t)
    \/ initialize_firmware_managers(t)
    \/ gs268(t)
    \/ gs274(t)
    \/ Respond(t)

\* Threads are scheduled fairly and a thread waiting for firmware_lock gets
\* it (strong fairness: the lock is free again and again); time passes.
LiveSpec ==
    /\ Init
    /\ [][LiveNext]_vars
    /\ WF_vars(Elapse)
    /\ \A t \in ThreadsS1 : SF_vars(Progress(t))

TypeOK ==
    /\ now \in StartTime..MaxTime
    /\ \A m \in FIRMWARE_REPOS : upstream[m] \in 1..MaxVersion
    /\ firmware_lock \in Threads \cup {"free"}
    /\ \A m \in FIRMWARE_REPOS : is_checking[m] \in BOOLEAN

\* ----------------------------------------------------------------- claims
\* The lines at which needs_update and download_firmware have returned to
\* their caller.
CheckReturned == {"bg240", "in299", "gs274", "cu334"}
DownloadReturned == {"bg243", "in302", "rt364"}
InFinally == {"df229", "df230"}

Rejected(t) ==
    /\ pc[t] \in DownloadReturned
    /\ result[t] = Result(FALSE, "Download already in progress", 0, 0)

\* The files and the version are as they were when the running download of
\* manager m acquired the flag.
Untouched(m) ==
    /\ firmware[m] = snap[m].firmware
    /\ meta[m] = snap[m].meta
    /\ current_version[m] = snap[m].current_version

C1_AtMostOne == \A m \in FIRMWARE_REPOS : Cardinality(Downloader(m)) <= 1

C1_LockOnlyAroundFlag ==
    \A t \in Threads : firmware_lock = t => pc[t] \in {"df156", "df230"}

C1_RejectedAtOnce ==
    \A t \in Threads :
        (pc[t] = "df156" /\ is_checking[bot(t)] /\ pc'[t] # pc[t] /\ ~crashed')
        => /\ pc'[t] \in DownloadReturned
           /\ result'[t] = Result(FALSE, "Download already in progress", 0, 0)
           /\ is_checking'[bot(t)]
           /\ \A u \in Downloader(bot(t)) : pc'[u] = pc[u]

\* C1: at most one download_firmware call of a manager is between setting
\* and clearing is_checking; a call that finds the flag set returns "Download
\* already in progress" in its next step, leaving the flag and the running
\* download as they are; and the lock is held only around the test and the
\* clearing of the flag, never while a download runs.
C1_Exclusive ==
    [](C1_AtMostOne /\ C1_LockOnlyAroundFlag) /\ [][C1_RejectedAtOnce]_vars

\* A call was rejected while the download that holds the flag is running.
C1_Witness ==
    \E t \in Threads : Rejected(t) /\ Downloader(bot(t)) # {}

\* C2: is_checking is true exactly when one download_firmware call of the
\* manager is between setting and clearing it: every call that set the flag
\* has cleared it when it has returned, whatever the outcome, and a rejected
\* call does not clear it.
C2_FlagIffDownloading ==
    \A m \in FIRMWARE_REPOS :
        Cardinality(Downloader(m)) = IF is_checking[m] THEN 1 ELSE 0

\* A download failed with an exception and has returned; the flag is clear.
C2_Witness ==
    \E t \in Threads :
        /\ pc[t] \in DownloadReturned
        /\ result[t].message = "Download failed"
        /\ ~is_checking[bot(t)]

\* C3 (as claimed): after a crash between the writing of the temp file and
\* the completion of the rename, the firmware file is the old one in full or
\* the new one in full; in particular not missing when an old one existed.
C3_OldOrNewAfterCrash ==
    \A m \in FIRMWARE_REPOS :
        (crashed /\ crashpc[m] \in {"df186", "df194", "df196"})
        => \/ firmware[m] = snap[m].firmware
           \/ firmware[m] = Full(snap[m].release)

C4_OnlyRenameChangesTarget ==
    \A m \in FIRMWARE_REPOS :
        firmware'[m] # firmware[m]
        => \E t \in Threads :
              bot(t) = m /\ pc[t] = "df196" /\ pc'[t] = "df208"

C4_NeverPartial ==
    \A m \in FIRMWARE_REPOS : firmware[m].exists => IsComplete(firmware[m])

\* C4 (as claimed): the firmware file is never partial, and no step other
\* than the rename changes its presence or content.
C4_RenameOnly == []C4_NeverPartial /\ [][C4_OnlyRenameChangesTarget]_vars

\* C5 (as claimed): when download_firmware is about to return a failure of
\* the fetch, the streaming, the replacement or the metadata step, the
\* firmware file, the metadata and current_version are as before the call.
C5_FailureLeavesCache ==
    \A t \in Threads :
        (pc[t] \in InFinally /\ ~result[t].success) => Untouched(bot(t))

C6_MismatchFails ==
    \A t \in Threads :
        (/\ pc[t] = "df186"
         /\ downloaded_size[t] # release_info[t].size
         /\ pc'[t] # pc[t]
         /\ ~crashed')
        => /\ pc'[t] \in InFinally
           /\ result'[t] = Result(FALSE, "Download incomplete",
                                  downloaded_size[t], release_info[t].size)
           /\ ~temp'[bot(t)].exists
           /\ firmware'[bot(t)] = snap[bot(t)].firmware
           /\ meta'[bot(t)] = snap[bot(t)].meta
           /\ current_version'[bot(t)] = snap[bot(t)].current_version

C6_IncompleteLeavesCache ==
    \A t \in Threads :
        (pc[t] \in InFinally /\ result[t].message = "Download incomplete")
        => /\ ~result[t].success
           /\ result[t].a # result[t].b
           /\ ~temp[bot(t)].exists
           /\ Untouched(bot(t))

\* C6: a download whose byte count differs from the release's size returns
\* "Download incomplete" with the actual and the expected count, the temp
\* file is removed, and the firmware file, the metadata and current_version
\* stay as before the call.
C6_SizeVerified == []C6_IncompleteLeavesCache /\ [][C6_MismatchFails]_vars

\* A short download failed while an earlier firmware file exists.
C6_Witness ==
    \E t \in Threads :
        /\ pc[t] \in InFinally
        /\ result[t].message = "Download incomplete"
        /\ result[t].a < result[t].b
        /\ snap[bot(t)].firmware.exists

C7_ThrottledStep ==
    \A t \in Threads :
        (/\ pc[t] = "nu128"
         /\ op[t] # "check"
         /\ now - last_check_time[bot(t)] < CheckInterval
         /\ pc'[t] # pc[t]
         /\ ~crashed')
        => /\ pc'[t] \in CheckReturned
           /\ decision'[t] = Decision(FALSE, "Recently checked", NoVersion,
                                      NoVersion, NoRelease)
           /\ ~fetched'[t]
           /\ UNCHANGED <<memory, disk, upstream>>

C7_ThrottledNeverFetched ==
    \A t \in Threads :
        (pc[t] \in CheckReturned /\ decision[t].reason = "Recently checked")
        => ~fetched[t] /\ release_info[t] = NoRelease

\* C7: an unforced check made when now - last_check_time < check_interval
\* returns (False, "Recently checked", None) without querying the release
\* API and without changing last_check_time or any other manager state.
C7_Throttle == []C7_ThrottledNeverFetched /\ [][C7_ThrottledStep]_vars

\* The background checker's check was throttled by an earlier check.
C7_Witness ==
    /\ pc["bg"] = "bg240"
    /\ decision["bg"].reason = "Recently checked"
    /\ last_check_time[S1] = now

\* C8 (as claimed): when an unforced check has returned, whatever its
\* outcome, a second unforced check made within check_interval of it would
\* be throttled.
C8_SecondCheckThrottled ==
    \A t \in Threads :
        (pc[t] \in CheckReturned /\ op[t] # "check")
        => \A c \in {current_time[t], current_time[t] + CheckInterval - 1} :
              c - last_check_time[bot(t)] < CheckInterval

\* C9: a check that was not throttled decides by the rules in order: a
\* fetch error gives (False, error, None); else no firmware file gives True
\* whatever the versions; else an unknown local version gives True; else a
\* local version different from the remote one gives True; else (False,
\* "Up to date", release_info).
C9_DecisionTable ==
    \A t \in Threads :
        (pc[t] \in CheckReturned /\ fetched[t])
        => LET d == decision[t]
               r == release_info[t]
               e == seen[t].exists
               v == seen[t].version
           IN  IF r = NoRelease
               THEN /\ ~d.needs_update
                    /\ d.reason \in FetchErrors
                    /\ d.release_info = NoRelease
               ELSE /\ d.release_info = r
                    /\ d.needs_update = (~e \/ v = NoVersion \/ v # r.version)
                    /\ d.reason =
                          CASE ~e               -> "No local firmware found"
                            [] e /\ v = NoVersion -> "Unknown local version"
                            [] e /\ v # NoVersion /\ v # r.version
                                                -> "New version available"
                            [] OTHER            -> "Up to date"

\* A check found no firmware file while the local version equals the remote
\* one, and asks for an update.
C9_Witness ==
    \E t \in Threads :
        /\ pc[t] \in CheckReturned
        /\ fetched[t]
        /\ ~seen[t].exists
        /\ seen[t].version = release_info[t].version
        /\ decision[t].needs_update

\* C10 (as claimed): a forced check queries the release API and never
\* returns "Recently checked".
C10_ForcedBypassesThrottle ==
    \A t \in Threads :
        (pc[t] = "cu334")
        => fetched[t] /\ decision[t].reason # "Recently checked"

\* C11 (as claimed): a get_status request is never answered with an error:
\* whatever a running download does to the firmware file between the
\* existence check and the size read, and whatever the fetch returns, the
\* status report is returned (200).
C11_StatusNeverFails ==
    \A t \in Threads :
        (pc[t] = "done" /\ op[t] = "status") => response[t] = 200

C12_AtReturn ==
    \A t \in Threads :
        (pc[t] \in InFinally /\ result[t].success)
        => LET R == release_info[t].version
           IN  /\ firmware[bot(t)] = Full(R)
               /\ meta[bot(t)] = [state |-> "ok", version |-> R,
                                  size |-> AssetSize(R)]
               /\ current_version[bot(t)] = R

C12_LaterStatus ==
    \A t \in Threads :
        (/\ pc[t] = "gs274"
         /\ fetched[t]
         /\ release_info[t] # NoRelease
         /\ seen[t].version = release_info[t].version)
        => ~decision[t].needs_update

\* C12 (as claimed): when download_firmware is about to return success for
\* release R, the firmware file is R in full, the metadata records R's
\* version and size and current_version is R; and a get_status whose check
\* found current_version equal to the version upstream reports does not ask
\* for an update.
C12_SuccessState == C12_AtReturn /\ C12_LaterStatus

C13_RefusedAnswered409 ==
    \A t \in Threads :
        (pc[t] = "rt364" /\ Rejected(t) /\ pc'[t] = "done")
        => response'[t] = 409

\* C13 (as claimed): a POST download request that download_firmware refused
\* with "Download already in progress" is answered with 409, not with 500.
C13_Conflict409 == [][C13_RefusedAnswered409]_vars

\* The lines of download_firmware at which the transfer and the replacement
\* run, the flag set and the lock released.
Transferring == {"df162", "df179", "df186", "df194", "df196", "df208", "df210"}

C14_NeverRejected ==
    \A t \in Checkers : result[t].message # "Download already in progress"

C14_NeverWaitsForDownload ==
    \A t, u \in Checkers :
        (bot(t) # bot(u) /\ pc[t] \in {"df155", "df229"}
                         /\ pc[u] \in Transferring \cup {"df229"})
        => ENABLED download_firmware(t)

C14_OtherManagerUnchanged ==
    \A t \in Checkers :
        pc'[t] # pc[t]
        => \A m \in FIRMWARE_REPOS \ {bot(t)} :
              /\ is_checking'[m] = is_checking[m]
              /\ last_check_time'[m] = last_check_time[m]
              /\ current_version'[m] = current_version[m]
              /\ firmware'[m] = firmware[m]
              /\ temp'[m] = temp[m]
              /\ meta'[m] = meta[m]

\* C14: with one checker per manager, a download_firmware call is never
\* rejected (a rejection could only come from the other manager), a call
\* that wants the lock can take it while the other manager's download is
\* transferring or replacing its file, and a step of one manager's thread
\* leaves the other manager's flag, last_check_time, current_version and
\* files unchanged.
C14_Independent ==
    /\ [](C14_NeverRejected /\ C14_NeverWaitsForDownload)
    /\ [][C14_OtherManagerUnchanged]_vars

\* Both managers are downloading at once, one entering download_firmware
\* while the other transfers.
C14_Witness ==
    \E t, u \in Checkers :
        /\ bot(t) # bot(u)
        /\ pc[t] = "df155"
        /\ pc[u] = "df179"
        /\ is_checking[bot(u)]

\* C15 (as claimed): in every reachable state, if the firmware file exists
\* then the metadata file exists and holds the version and size of the file
\* on disk.
C15_ArtifactHasMetadata ==
    \A m \in FIRMWARE_REPOS :
        firmware[m].exists
        => /\ meta[m].state = "ok"
           /\ meta[m].version = firmware[m].ver
           /\ meta[m].size = firmware[m].len

\* The same, only while no download of the manager is running.
C15_AtRest ==
    \A m \in FIRMWARE_REPOS :
        (firmware[m].exists /\ ~is_checking[m] /\ ~crashed)
        => /\ meta[m].state = "ok"
           /\ meta[m].version = firmware[m].ver
           /\ meta[m].size = firmware[m].len

C17_CheckStampsTime ==
    \A t \in Threads :
        (pc[t] = "nu132" /\ pc'[t] # pc[t] /\ ~crashed')
        => last_check_time'[bot(t)] = current_time[t]

C17_LastCheckUpdated == [][C17_CheckStampsTime]_vars

\* The lines of needs_update, get_status and the check-update route.
CheckLines == {"nu128", "nu132", "nu140", "nu144", "nu148", "gs268", "gs274",
               "cu334"}

\* Thread t takes a step of a check: a line of needs_update, of get_status
\* or of the check-update route, or the arrival of such a request.
CheckStep(t) ==
    /\ pc'[t] # pc[t]
    /\ ~crashed'
    /\ \/ pc[t] \in CheckLines
       \/ pc[t] = "idle" /\ op'[t] \in {"status", "check"}

C18_CheckFrame ==
    \A t \in Threads :
        CheckStep(t)
        => /\ UNCHANGED <<firmware, temp, meta, current_version, is_checking,
                          firmware_lock>>
           /\ \A m \in FIRMWARE_REPOS \ {bot(t)} :
                 last_check_time'[m] = last_check_time[m]

C18_CheckNeverBlocked ==
    \A t \in ThreadsS1 :
        (pc[t] \in CheckLines /\ ~crashed)
        => ENABLED (needs_update(t) \/ get_status(t)
                        \/ check_firmware_update(t))

\* C18: a step of needs_update, get_status or the check-update route changes
\* neither the firmware file, the temp file, the metadata, current_version,
\* is_checking nor the lock (only last_check_time of its own manager), and
\* such a step is possible whatever a download or another check is doing.
C18_ChecksOnlyStampTime ==
    []C18_CheckNeverBlocked /\ [][C18_CheckFrame]_vars

\* A status check has queried the release API and stamped last_check_time
\* while a download of the same manager is running.
C18_Witness ==
    \E t \in Threads :
        /\ pc[t] = "gs274"
        /\ fetched[t]
        /\ last_check_time[bot(t)] = current_time[t]
        /\ is_checking[bot(t)]

C19_DownloadOnlyWhenNeeded ==
    \A t \in Checkers :
        (pc[t] = "bg240" /\ pc'[t] # pc[t])
        => IF decision[t].needs_update /\ decision[t].release_info # NoRelease
           THEN pc'[t] = "df155" /\ release_info'[t] = decision[t].release_info
           ELSE pc'[t] = "bg237"

C19_BackToSleep ==
    \A t \in Checkers : (pc[t] = "bg243" /\ pc'[t] # pc[t]) => pc'[t] = "bg237"

\* C19: the background checker sleeps again and again and wakes again and
\* again; after a check it calls download_firmware exactly when the check
\* returned needs_update with release info, and otherwise, and after every
\* download outcome, it goes back to sleep.
C19_LoopForever ==
    /\ [][C19_DownloadOnlyWhenNeeded /\ C19_BackToSleep]_vars
    /\ []<>(pc["bg"] = "bg237")
    /\ []<>(pc["bg"] = "nu128")

\* The checker's download was rejected as already in progress, one of the
\* iteration outcomes.
C19_Witness ==
    /\ pc["bg"] = "bg243"
    /\ result["bg"].message = "Download already in progress"

\* A release fetch or a download has just failed.
Failed ==
    \E t \in Threads :
        \/ pc[t] \in CheckReturned /\ decision[t].reason \in FetchErrors
        \/ pc[t] \in InFinally /\ ~result[t].success

\* C20 (as claimed): if from some time on no release fetch and no download
\* fails, then whenever current_version differs from the version upstream
\* reports, it eventually equals it.
C20_EventualSync ==
    (<>[]~Failed)
    => ((current_version[S1] # upstream[S1])
            ~> (current_version[S1] = upstream[S1]))

\* C21 (as claimed): whenever no download of a manager is running (and the
\* process is alive), current_version is the version recorded in the
\* metadata file, and unset when there is no metadata file.
C21_VersionIsMetadataVersion ==
    \A m \in FIRMWARE_REPOS :
        (~is_checking[m] /\ ~crashed)
        => current_version[m] =
               IF meta[m].state = "ok" THEN meta[m].version ELSE NoVersion

====
